---- MODULE Spec2Model ----
(***************************************************************************)
(* State-machine model of the sample_vpn automation scripts:               *)
(*   src/vpn_automator.py            (OpenVPN: download, handoff, connect) *)
(*   src/vpn_automator_wireguard.py  (WireGuard via package managers)      *)
(*   src/connect_vpn.py              (stand-alone OpenVPN connector)       *)
(*                                                                         *)
(* Strings are modelled as sequences of chunks (tokens). A chunk is an     *)
(* atomic piece of text such as ".exe", "#" or "windows"; the chunks are   *)
(* chosen so that no suffix or keyword of the program straddles two        *)
(* chunks. Href stems such as "a" stand for absolute URLs "http://x/a".    *)
(***************************************************************************)
EXTENDS Integers, Sequences, FiniteSets, TLC

(***************************************************************************)
(* Bounds of the model                                                     *)
(***************************************************************************)
MaxAnchors == 3
MaxSize == 2          \* largest file size the browser writes
TimeoutTicks == 4     \* the watcher's timeout, in ticks of 0.5 s

(***************************************************************************)
(* State                                                                   *)
(***************************************************************************)
\* find_and_click_download (src/vpn_automator.py)
VARIABLES
  target_os,    \* "windows" | "linux"
  anchors,      \* driver.find_elements(By.TAG_NAME, "a"), in page order
  candidates,   \* the list `candidates`
  hrefs,        \* list(unique.keys())
  chosen,       \* what find_and_click_download returns
  lpc           \* position in find_and_click_download

lvars == <<target_os, anchors, candidates, hrefs, chosen, lpc>>

\* wait_for_download_completion (src/vpn_automator.py)
VARIABLES
  dir,            \* download_dir: name -> size, Absent when there is no entry
  clock,          \* time.time() - start, in ticks of 0.5 s
  existing,       \* names in the snapshot
  current_files,  \* names listed by this pass
  todo,           \* entries of `new` this pass has yet to look at
  cur,            \* the entry whose size is being sampled
  size1,          \* its first sample
  completed,      \* the list `completed` of this pass
  result,         \* what the function returns
  via,            \* how it ended: completed | existing | timeout | raised
  wpc,            \* position in wait_for_download_completion
  seenNew,        \* history: names not in the snapshot seen in the directory
  viaPartial,     \* history: final names a new partial file was renamed to
  renamedTo       \* history: final names any partial file was renamed to
                  \* since the snapshot

wvars == <<dir, clock, existing, current_files, todo, cur, size1, completed,
           result, via, wpc, seenNew, viaPartial, renamedTo>>

\* main, download_installer, connect_vpn (src/vpn_automator.py)
VARIABLES
  env,              \* the environment after load_dotenv: key -> raw value
  cfg,              \* the dict load_configuration returns
  mpc,              \* position in main
  exit_code,        \* the process's exit status, Running until it ends
  fatal_msg,        \* what ended the run: [kind, names]
  installed,        \* main's `installed`
  driver,           \* the WebDriver in use: none | chrome | firefox | quit
  subprocesses,     \* the child processes launched, in order
  proc,             \* the OpenVPN child: none | running | exited | terminated
  auth_file,        \* whether openvpn_auth.txt exists
  openvpn_in_path,  \* whether shutil.which finds openvpn
  passed,           \* history: the steps that produced their result
  errors,           \* history: the failures met
  interrupt_at,     \* history: where a KeyboardInterrupt was delivered
  ovpn_file         \* whether the file VPN_CONFIG_FILE names exists

mvars == <<env, cfg, mpc, exit_code, fatal_msg, installed, driver, subprocesses,
           proc, auth_file, openvpn_in_path, passed, errors, interrupt_at,
           ovpn_file>>

\* connect_vpn (src/connect_vpn.py)
VARIABLES
  cenv,          \* the environment after load_dotenv: key -> raw value
  csystem,       \* platform.system()
  cpc,           \* position in connect_vpn
  creds_file,    \* whether temp_creds.txt exists
  cproc,         \* the OpenVPN child: none | running | exited
  cexit,         \* the process's exit status, Running until it ends
  claunched,     \* the child processes launched, in order
  cmsg           \* the last message printed

cvars == <<cenv, csystem, cpc, creds_file, cproc, cexit, claunched, cmsg>>

\* main (src/vpn_automator_wireguard.py)
VARIABLES
  genv,          \* the value of WG_CONFIG_FILE in the environment
  gsystem,       \* platform.system().lower()
  groot,         \* os.geteuid() == 0
  gpms,          \* the package managers shutil.which finds
  wg_present,    \* whether shutil.which finds wg-quick or wg
  gpc,           \* position in main
  gqueue,        \* the commands the current step has yet to run
  gcmds,         \* the commands run, in order, each with its outcome
  gexit,         \* the process's exit status, Running until it ends
  gmsg,          \* what ended the run
  gneeded        \* history: the first check found no WireGuard binary

gvars == <<genv, gsystem, groot, gpms, wg_present, gpc, gqueue, gcmds, gexit,
           gmsg, gneeded>>

vars == <<lvars, wvars, mvars, cvars, gvars>>

notL == <<wvars, mvars, cvars, gvars>>
notW == <<lvars, mvars, cvars, gvars>>
notM == <<lvars, wvars, cvars, gvars>>
notC == <<lvars, wvars, mvars, gvars>>
notG == <<lvars, wvars, mvars, cvars>>

(***************************************************************************)
(* String helpers (Python str.lower, str.endswith, `in`, str.split("#")[0])*)
(***************************************************************************)
LowerTok(t) ==
  CASE t = ".EXE"    -> ".exe"
    [] t = "A"       -> "a"
    [] t = "Windows" -> "windows"
    [] t = "WINDOWS" -> "windows"
    [] t = "Linux"   -> "linux"
    [] t = "LINUX"   -> "linux"
    [] OTHER         -> t

Lower(s) == [i \in DOMAIN s |-> LowerTok(s[i])]

\* the keyword-sized substrings of one chunk (case-sensitive, like `in`)
SubstringsOf(t) ==
  CASE t = ".exe" -> {".exe", "exe"}
    [] t = ".msi" -> {".msi", "msi"}
    [] OTHER      -> {t}

\* kw in s
Contains(s, kw) == \E i \in DOMAIN s : kw \in SubstringsOf(s[i])

\* s.endswith(suf): every suffix of the program is one chunk
EndsWith(s, suf) == Len(s) > 0 /\ s[Len(s)] = suf

RECURSIVE FirstHash(_, _)
FirstHash(s, i) ==
  IF i > Len(s) THEN Len(s) + 1
  ELSE IF s[i] = "#" THEN i ELSE FirstHash(s, i + 1)

\* href.split("#")[0]
StripFragment(s) == SubSeq(s, 1, FirstHash(s, 1) - 1)

(***************************************************************************)
(* find_and_click_download: the lookup tables                              *)
(***************************************************************************)
suffixes(os) ==
  IF os = "windows" THEN <<".exe", ".msi">>
  ELSE IF os = "linux" THEN <<".deb", ".rpm", ".tar.gz", ".tar.xz">>
  ELSE <<>>

keywords(os) ==
  IF os = "windows" THEN <<"windows", "msi", "exe", "Windows">>
  ELSE IF os = "linux" THEN <<"linux", ".deb", ".rpm", "Linux">>
  ELSE <<>>

\* key.lower().endswith(suf) for some accepted suffix
HasSuffix(s, os) ==
  \E k \in DOMAIN suffixes(os) : EndsWith(Lower(s), suffixes(os)[k])

\* re.search(r"(https?://[^\']+)", onclick): the chunks after the opening
\* quote chunk up to the closing quote chunk
RECURSIVE UpToQuote(_, _)
UpToQuote(s, i) ==
  IF i > Len(s) \/ s[i] = "'" THEN <<>>
  ELSE <<s[i]>> \o UpToQuote(s, i + 1)

ExtractOnclickUrl(onclick) ==
  IF \E i \in DOMAIN onclick : onclick[i] = "go('"
  THEN UpToQuote(onclick, 1 + CHOOSE i \in DOMAIN onclick :
                    onclick[i] = "go('" /\ \A j \in 1..(i-1) : onclick[j] # "go('")
  ELSE <<>>

\* lines 197-208: the href of an anchor, with the onclick fallback
EffectiveHref(a) ==
  IF a.href # <<>> THEN a.href ELSE ExtractOnclickUrl(a.onclick)

\* lines 209-217: the candidates one anchor contributes, in append order
AnchorCandidates(a, os) ==
  LET href  == EffectiveHref(a)
      lower == Lower(href)
      SufHit(suf) == EndsWith(lower, suf)
      KwHit(kw)   == Contains(lower, LowerTok(kw)) \/ Contains(a.text, kw)
      nSuf == Len(SelectSeq(suffixes(os), SufHit))
      nKw  == Len(SelectSeq(keywords(os), KwHit))
  IN IF href = <<>> THEN <<>>
     ELSE [i \in 1..(nSuf + nKw) |-> [href |-> href, text |-> a.text]]

RECURSIVE CollectCandidates(_, _)
CollectCandidates(as, os) ==
  IF as = <<>> THEN <<>>
  ELSE AnchorCandidates(Head(as), os) \o CollectCandidates(Tail(as), os)

\* mutant of UniqueKeys: the whole href is the key
RECURSIVE UniqueKeysWhole(_, _)
UniqueKeysWhole(cands, seen) ==
  IF cands = <<>> THEN seen
  ELSE LET key == Head(cands).href
       IN UniqueKeysWhole(Tail(cands),
                          IF \E i \in DOMAIN seen : seen[i] = key
                          THEN seen ELSE Append(seen, key))

\* lines 222-226: keys of `unique` in insertion order
RECURSIVE UniqueKeys(_, _)
UniqueKeys(cands, seen) ==
  IF cands = <<>> THEN seen
  ELSE LET key == StripFragment(Head(cands).href)
       IN UniqueKeys(Tail(cands),
                     IF \E i \in DOMAIN seen : seen[i] = key
                     THEN seen ELSE Append(seen, key))

\* lines 233-236: the first key that ends with an accepted suffix (0: none)
FirstSuffixKey(keys, os) ==
  IF \E i \in DOMAIN keys : HasSuffix(keys[i], os)
  THEN CHOOSE i \in DOMAIN keys :
         HasSuffix(keys[i], os) /\ \A j \in 1..(i-1) : ~HasSuffix(keys[j], os)
  ELSE 0

(***************************************************************************)
(* The anchors a page may hold (href, visible text, onclick attribute)     *)
(***************************************************************************)
Anchor(h, t, o) == [href |-> h, text |-> t, onclick |-> o]

AnchorUniverse ==
  { Anchor(h, <<>>, <<>>) : h \in
      { <<"a", ".exe">>, <<"A", ".EXE">>, <<"a", ".exe", "#", "f">>,
        <<"p", "#", ".exe">>, <<"windows">>,
        <<"b", ".deb">>, <<"c", ".tar.gz">>, <<"c", ".tar.gz", "#", "f">>,
        <<"p", "#", ".tar.gz">>, <<"linux">>, <<"p">> } }
  \cup { Anchor(<<"p">>, <<"Windows">>, <<>>), Anchor(<<"q">>, <<"WINDOWS">>, <<>>),
         Anchor(<<"p">>, <<"Linux">>, <<>>),   Anchor(<<"q">>, <<"LINUX">>, <<>>),
         Anchor(<<>>, <<>>, <<"go('", "a", ".exe", "'", ")">>),
         Anchor(<<>>, <<>>, <<>>) }

AnchorLists == UNION { [1..n -> AnchorUniverse] : n \in 0..MaxAnchors }

NoLink == [found |-> FALSE, href |-> <<>>, by |-> "none", activation |-> "none"]

LinkIdle ==
  /\ target_os = "linux" /\ anchors = <<>> /\ candidates = <<>>
  /\ hrefs = <<>> /\ chosen = NoLink /\ lpc = "idle"

LinkInit ==
  /\ target_os \in {"windows", "linux"}
  /\ anchors \in AnchorLists
  /\ candidates = <<>> /\ hrefs = <<>> /\ chosen = NoLink
  /\ lpc = "start"

\* lines 193-219
LinkCollect ==
  /\ lpc = "start"
  /\ candidates' = CollectCandidates(anchors, target_os)
  /\ lpc' = "collected"
  /\ UNCHANGED <<target_os, anchors, hrefs, chosen>>
  /\ UNCHANGED notL

\* lines 221-226
LinkDedup ==
  /\ lpc = "collected"
  /\ hrefs' = UniqueKeys(candidates, <<>>)
  /\ lpc' = "deduped"
  /\ UNCHANGED <<target_os, anchors, candidates, chosen>>
  /\ UNCHANGED notL

\* lines 228-230
LinkNotFound ==
  /\ lpc = "deduped" /\ hrefs = <<>>
  /\ chosen' = NoLink
  /\ lpc' = "done"
  /\ UNCHANGED <<target_os, anchors, candidates, hrefs>>
  /\ UNCHANGED notL

\* lines 232-261: selection, then activation (click, click by contains,
\* direct navigation; the last may raise out of the function)
LinkSelect ==
  /\ lpc = "deduped" /\ hrefs # <<>>
  /\ \E act \in {"click", "click_contains", "navigate", "raised"} :
       LET k == FirstSuffixKey(hrefs, target_os)
       IN chosen' = [found |-> act # "raised",
                     href  |-> IF k # 0 THEN hrefs[k] ELSE hrefs[1],
                     by    |-> IF k # 0 THEN "suffix" ELSE "fallback",
                     activation |-> act]
  /\ lpc' = "done"
  /\ UNCHANGED <<target_os, anchors, candidates, hrefs>>
  /\ UNCHANGED notL

\* ---- C1 ----------------------------------------------------------------
SuffixMatch(h) == HasSuffix(h, target_os)

SuffixMatchLoose(h) ==
  HasSuffix(h, target_os) \/ HasSuffix(StripFragment(h), target_os)

\* index of the first anchor whose href ends with an accepted suffix (0: none)
FirstSuffixAnchor ==
  IF \E i \in DOMAIN anchors : SuffixMatch(EffectiveHref(anchors[i]))
  THEN CHOOSE i \in DOMAIN anchors :
         /\ SuffixMatch(EffectiveHref(anchors[i]))
         /\ \A j \in 1..(i-1) : ~SuffixMatch(EffectiveHref(anchors[j]))
  ELSE 0

\* the same, an href also counting when it ends with the suffix once its
\* fragment is removed
FirstSuffixAnchorLoose ==
  IF \E i \in DOMAIN anchors : SuffixMatchLoose(EffectiveHref(anchors[i]))
  THEN CHOOSE i \in DOMAIN anchors :
         /\ SuffixMatchLoose(EffectiveHref(anchors[i]))
         /\ \A j \in 1..(i-1) : ~SuffixMatchLoose(EffectiveHref(anchors[j]))
  ELSE 0

\* C1: whenever some anchor's href ends with an accepted suffix of the target
\* platform, the link selected is chosen by the suffix rule (never by the
\* keyword/first-candidate fallback) and is the first suffix-matching link in
\* page order, where an href carrying a #fragment may be counted with or
\* without its fragment.
C1_SuffixPreferred ==
  (lpc = "done" /\ FirstSuffixAnchor # 0) =>
     /\ chosen.by = "suffix"
     /\ chosen.href \in
          { StripFragment(EffectiveHref(anchors[FirstSuffixAnchor])),
            StripFragment(EffectiveHref(anchors[FirstSuffixAnchorLoose])) }

\* ---- C11 ---------------------------------------------------------------
\* position in `candidates` of the first candidate whose href, without its
\* fragment, is key
FirstSeen(key) ==
  CHOOSE i \in DOMAIN candidates :
    /\ StripFragment(candidates[i].href) = key
    /\ \A j \in 1..(i-1) : StripFragment(candidates[j].href) # key

AsCandidates(keys) == [i \in DOMAIN keys |-> [href |-> keys[i], text |-> <<>>]]

\* C11: after deduplication the list holds exactly the fragment-stripped
\* hrefs of the candidates, each once (candidates that differ only by their
\* #fragment are one entry), in the order in which they were first seen, and
\* deduplicating that list again gives the same list.
C11_DedupByStrippedHref ==
  (lpc \in {"deduped", "done"}) =>
     /\ \A i, j \in DOMAIN hrefs : hrefs[i] = hrefs[j] => i = j
     /\ { hrefs[i] : i \in DOMAIN hrefs } =
          { StripFragment(candidates[i].href) : i \in DOMAIN candidates }
     /\ \A i, j \in DOMAIN hrefs :
          i < j => FirstSeen(hrefs[i]) < FirstSeen(hrefs[j])
     /\ \A i, j \in DOMAIN candidates :
          StripFragment(candidates[i].href) = StripFragment(candidates[j].href)
            => \E k \in DOMAIN hrefs :
                 /\ hrefs[k] = StripFragment(candidates[i].href)
                 /\ \A m \in DOMAIN hrefs : hrefs[m] = hrefs[k] => m = k
     /\ UniqueKeys(AsCandidates(hrefs), <<>>) = hrefs

\* two candidates that differ only by a fragment, seen after another link
C11_Witness ==
  /\ lpc = "deduped" /\ Len(hrefs) = 2
  /\ \E i, j \in DOMAIN candidates :
       /\ i < j
       /\ candidates[i].href # candidates[j].href
       /\ StripFragment(candidates[i].href) = StripFragment(candidates[j].href)
       /\ hrefs[2] = StripFragment(candidates[i].href)

\* ---- C13 ---------------------------------------------------------------
\* a keyword of the target platform occurs in x, letter case ignored
KeywordIn(x) ==
  \E k \in DOMAIN keywords(target_os) :
    Contains(Lower(x), LowerTok(keywords(target_os)[k]))

\* C13: every anchor with an href in whose href or visible text a keyword of
\* the target platform occurs, in any letter case, is among the candidates.
C13_KeywordAnyCase ==
  (lpc \in {"collected", "deduped", "done"}) =>
     \A i \in DOMAIN anchors :
       LET href == EffectiveHref(anchors[i]) IN
       (href # <<>> /\ (KeywordIn(href) \/ KeywordIn(anchors[i].text))) =>
          \E c \in DOMAIN candidates : candidates[c].href = href

LinkNext == LinkCollect \/ LinkDedup \/ LinkNotFound \/ LinkSelect

(***************************************************************************)
(* wait_for_download_completion, with the browser writing the directory    *)
(***************************************************************************)
partial_exts == <<".crdownload", ".part", ".partial", ".download">>

\* any(name.endswith(ext) for ext in partial_exts)
IsPartial(name) == \E k \in DOMAIN partial_exts : EndsWith(name, partial_exts[k])

FileNames == { <<"a">>, <<"a", ".part">>, <<"b">> }

Absent == -1

NoFile == [found |-> FALSE, name |-> <<>>]

Present(d) == { n \in FileNames : d[n] # Absent }

WatchIdle ==
  /\ dir = [n \in FileNames |-> Absent] /\ clock = 0 /\ existing = {}
  /\ current_files = {} /\ todo = {} /\ cur = <<>> /\ size1 = 0
  /\ completed = <<>> /\ result = NoFile /\ via = "none" /\ wpc = "idle"
  /\ seenNew = {} /\ viaPartial = {} /\ renamedTo = {}

WatchInit ==
  /\ dir \in [FileNames -> Absent..MaxSize]
  /\ clock = 0 /\ existing = {}
  /\ current_files = {} /\ todo = {} /\ cur = <<>> /\ size1 = 0
  /\ completed = <<>> /\ result = NoFile /\ via = "none" /\ wpc = "start"
  /\ seenNew = {} /\ viaPartial = {} /\ renamedTo = {}

\* history bookkeeping for a directory change (no program state)
Observe(d) ==
  seenNew' = IF wpc = "start" THEN seenNew
             ELSE seenNew \cup (Present(d) \ existing)

\* ---- the browser (environment): create, grow, rename, delete -------------
BrowserCreate ==
  /\ wpc \notin {"idle", "done"}
  /\ \E n \in FileNames, sz \in 0..MaxSize :
       /\ dir[n] = Absent
       /\ dir' = [dir EXCEPT ![n] = sz]
  /\ Observe(dir')
  /\ UNCHANGED <<clock, existing, current_files, todo, cur, size1, completed,
                 result, via, wpc, viaPartial>>
  /\ UNCHANGED renamedTo
  /\ UNCHANGED notW

BrowserGrow ==
  /\ wpc \notin {"idle", "done"}
  /\ \E n \in FileNames :
       /\ dir[n] # Absent /\ dir[n] < MaxSize
       /\ dir' = [dir EXCEPT ![n] = dir[n] + 1]
  /\ UNCHANGED <<clock, existing, current_files, todo, cur, size1, completed,
                 result, via, wpc, seenNew, viaPartial, renamedTo>>
  /\ UNCHANGED renamedTo
  /\ UNCHANGED notW

\* the temporary name loses its partial suffix (an existing target is replaced)
BrowserRename ==
  /\ wpc \notin {"idle", "done"}
  /\ \E n \in FileNames :
       LET final == SubSeq(n, 1, Len(n) - 1) IN
       /\ IsPartial(n) /\ final \in FileNames /\ dir[n] # Absent
       /\ dir' = [dir EXCEPT ![n] = Absent, ![final] = dir[n]]
       /\ viaPartial' = IF n \in seenNew THEN viaPartial \cup {final}
                         ELSE viaPartial
       /\ renamedTo' = IF wpc = "start" THEN renamedTo
                        ELSE renamedTo \cup {final}
  /\ Observe(dir')
  /\ UNCHANGED <<clock, existing, current_files, todo, cur, size1, completed,
                 result, via, wpc>>
  /\ UNCHANGED notW

BrowserDelete ==
  /\ wpc \notin {"idle", "done"}
  /\ \E n \in FileNames :
       /\ dir[n] # Absent
       /\ dir' = [dir EXCEPT ![n] = Absent]
  /\ UNCHANGED <<clock, existing, current_files, todo, cur, size1, completed,
                 result, via, wpc, seenNew, viaPartial, renamedTo>>
  /\ UNCHANGED renamedTo
  /\ UNCHANGED notW

\* ---- the watcher ---------------------------------------------------------
\* lines 269-271
WSnapshot ==
  /\ wpc = "start"
  /\ existing' = Present(dir)
  /\ wpc' = "loop"
  /\ UNCHANGED <<dir, clock, current_files, todo, cur, size1, completed,
                 result, via, seenNew, viaPartial>>
  /\ UNCHANGED renamedTo
  /\ UNCHANGED notW

\* lines 272-277: the loop test, the listing, `new`
WListing ==
  /\ wpc = "loop" /\ clock < TimeoutTicks
  /\ current_files' = Present(dir)
  /\ todo' = Present(dir) \ existing
  /\ completed' = <<>>
  /\ wpc' = "scan"
  /\ UNCHANGED <<dir, clock, existing, cur, size1, result, via, seenNew,
                 viaPartial>>
  /\ UNCHANGED renamedTo
  /\ UNCHANGED notW

\* lines 310-311
WTimeout ==
  /\ wpc = "loop" /\ clock >= TimeoutTicks
  /\ result' = NoFile /\ via' = "timeout" /\ wpc' = "done"
  /\ UNCHANGED <<dir, clock, existing, current_files, todo, cur, size1,
                 completed, seenNew, viaPartial>>
  /\ UNCHANGED renamedTo
  /\ UNCHANGED notW

\* lines 278-284: next entry of `new` (listing order is the file system's);
\* a partial name is skipped, a vanished entry raises and is skipped
WScanNext ==
  /\ wpc = "scan"
  /\ \E p \in todo :
       /\ todo' = todo \ {p}
       /\ IF IsPartial(p) \/ dir[p] = Absent
          THEN UNCHANGED <<cur, size1, wpc>>
          ELSE cur' = p /\ size1' = dir[p] /\ wpc' = "sample2"
  /\ UNCHANGED <<dir, clock, existing, current_files, completed, result, via,
                 seenNew, viaPartial>>
  /\ UNCHANGED renamedTo
  /\ UNCHANGED notW

\* lines 286-292: sleep 0.5 s, second sample, the stability test
WSample2 ==
  /\ wpc = "sample2"
  /\ clock' = clock + 1
  /\ completed' = IF dir[cur] # Absent /\ size1 = dir[cur] /\ size1 > 0
                   THEN Append(completed, cur) ELSE completed
  /\ wpc' = "scan"
  /\ UNCHANGED <<dir, existing, current_files, todo, cur, size1, result, via,
                 seenNew, viaPartial>>
  /\ UNCHANGED renamedTo
  /\ UNCHANGED notW

\* mutant of PickLargest: the sort without reverse=True
PickSmallest(list, d) ==
  list[CHOOSE i \in DOMAIN list :
         /\ \A j \in DOMAIN list : d[list[j]] >= d[list[i]]
         /\ \A j \in 1..(i-1) : d[list[j]] > d[list[i]]]

\* completed.sort(key=size, reverse=True)[0]: the sort is stable, so among
\* the largest the earliest in the list wins
PickLargest(list, d) ==
  list[CHOOSE i \in DOMAIN list :
         /\ \A j \in DOMAIN list : d[list[j]] <= d[list[i]]
         /\ \A j \in 1..(i-1) : d[list[j]] < d[list[i]]]

\* lines 293-297 (a completed entry that has vanished makes stat() raise)
WReturnCompleted ==
  /\ wpc = "scan" /\ todo = {} /\ completed # <<>>
  /\ IF \E i \in DOMAIN completed : dir[completed[i]] = Absent
     THEN result' = NoFile /\ via' = "raised"
     ELSE /\ result' = [found |-> TRUE, name |-> PickLargest(completed, dir)]
          /\ via' = "completed"
  /\ wpc' = "done"
  /\ UNCHANGED <<dir, clock, existing, current_files, todo, cur, size1,
                 completed, seenNew, viaPartial>>
  /\ UNCHANGED renamedTo
  /\ UNCHANGED notW

\* mutant of ExistingQualifying: neither the name nor the size is tested
ExistingAny(d) == { p \in current_files \cap existing : d[p] # Absent }

\* lines 298-307: entries of the listing that are in the snapshot
ExistingQualifying(d) ==
  { p \in current_files \cap existing : ~IsPartial(p) /\ d[p] # Absent /\ d[p] > 0 }

WReturnExisting ==
  /\ wpc = "scan" /\ todo = {} /\ completed = <<>>
  /\ \E p \in ExistingQualifying(dir) :
       result' = [found |-> TRUE, name |-> p]
  /\ via' = "existing" /\ wpc' = "done"
  /\ UNCHANGED <<dir, clock, existing, current_files, todo, cur, size1,
                 completed, seenNew, viaPartial>>
  /\ UNCHANGED renamedTo
  /\ UNCHANGED notW

\* lines 308-309
WSleep ==
  /\ wpc = "scan" /\ todo = {} /\ completed = <<>>
  /\ ExistingQualifying(dir) = {}
  /\ clock' = clock + 2
  /\ wpc' = "loop"
  /\ UNCHANGED <<dir, existing, current_files, todo, cur, size1, completed,
                 result, via, seenNew, viaPartial>>
  /\ UNCHANGED renamedTo
  /\ UNCHANGED notW

\* ---- C2 ----------------------------------------------------------------
\* every entry that is new relative to the snapshot had a partial suffix and
\* none was renamed
OnlyPartialNew ==
  /\ seenNew # {}
  /\ \A n \in seenNew : IsPartial(n)
  /\ viaPartial = {}

\* C2: when the only new entries are partial-suffixed files that never
\* settle, the watcher returns no file and ends by its timeout, whatever the
\* snapshot held.
C2_PartialOnlyTimesOut ==
  (wpc = "done" /\ OnlyPartialNew) => (~result.found /\ via = "timeout")

\* ---- C3 ----------------------------------------------------------------
\* f appeared after the snapshot under a partial name, was renamed to f, and
\* has a nonzero size which it keeps from now on, the timeout not yet reached;
\* no other new non-partial entry was ever in the directory
SettledDownload(f) ==
  /\ f \in viaPartial
  /\ dir[f] # Absent /\ dir[f] > 0
  /\ clock < TimeoutTicks
  /\ \A n \in seenNew : IsPartial(n) \/ n = f

\* C3: a file that appears under a partial name after the snapshot, is renamed
\* to its final name and settles at a nonzero size before the timeout is the
\* file the watcher returns (not None, not another entry).
C3_SettledFileReturned ==
  \A f \in FileNames :
    (wpc = "done" /\ SettledDownload(f)) => result = [found |-> TRUE, name |-> f]

\* ---- C4 ----------------------------------------------------------------
\* C4: when two (or more) new non-partial files pass the stability test in one
\* pass, the file returned is one of them and none of them is larger.
C4_LargestReturned ==
  (wpc = "done" /\ via = "completed" /\ Len(completed) >= 2) =>
     /\ result.found
     /\ \E i \in DOMAIN completed : completed[i] = result.name
     /\ \A i \in DOMAIN completed : dir[completed[i]] <= dir[result.name]

\* two stable new files, the smaller one listed first, the larger returned
C4_Witness ==
  /\ wpc = "done" /\ via = "completed" /\ Len(completed) = 2
  /\ {completed[1], completed[2]} \cap existing = {}
  /\ dir[completed[1]] < dir[completed[2]]
  /\ result = [found |-> TRUE, name |-> completed[2]]

\* ---- C12 ---------------------------------------------------------------
\* C12: an entry of the snapshot is returned only if, since the snapshot, a
\* partial-suffixed file was renamed to it, its name has no partial suffix
\* and its size is nonzero; a snapshot entry that never was partial-suffixed
\* is never returned.
C12_ExistingOnlyIfRenamed ==
  (wpc = "done" /\ result.found /\ result.name \in existing) =>
     /\ result.name \in renamedTo
     /\ ~IsPartial(result.name)
     /\ dir[result.name] > 0

WatchNext ==
  \/ BrowserCreate \/ BrowserGrow \/ BrowserRename \/ BrowserDelete
  \/ WSnapshot \/ WListing \/ WTimeout \/ WScanNext \/ WSample2
  \/ WReturnCompleted \/ WReturnExisting \/ WSleep

(***************************************************************************)
(* vpn_automator.py: main, download_installer, connect_vpn                 *)
(***************************************************************************)
Running == -1

Unset == "<unset>"

EnvValues == {Unset, " ", "v"}

RequiredKeys == <<"DOWNLOAD_PAGE_URL", "VPN_CONFIG_FILE", "VPN_USERNAME", "VPN_PASSWORD">>

KeySet == { RequiredKeys[i] : i \in DOMAIN RequiredKeys }

\* os.getenv(key, default)
Getenv(e, key, default) == IF e[key] = Unset THEN default ELSE e[key]

\* str.strip()
Strip(x) == IF x = " " THEN "" ELSE x

\* lines 79-87 (the required keys of the dict)
load_configuration(e) == [k \in KeySet |-> Strip(Getenv(e, k, ""))]

\* mutant of sanity_missing: stop at the first missing key
sanity_missing_first(c) ==
  LET Missing(k) == c[k] = ""
      all == SelectSeq(RequiredKeys, Missing)
  IN IF all = <<>> THEN <<>> ELSE <<Head(all)>>

\* lines 90-98: the list `missing`
sanity_missing(c) ==
  LET Missing(k) == c[k] = ""
  IN SelectSeq(RequiredKeys, Missing)

NoMsg == [kind |-> "none", names |-> <<>>]

EmptyCfg == [k \in KeySet |-> ""]

MainIdle ==
  /\ env = [k \in KeySet |-> Unset] /\ cfg = EmptyCfg /\ mpc = "idle"
  /\ exit_code = Running /\ fatal_msg = NoMsg /\ installed = FALSE
  /\ driver = "none" /\ subprocesses = <<>> /\ proc = "none"
  /\ auth_file = FALSE /\ openvpn_in_path = FALSE /\ passed = {}
  /\ errors = {} /\ interrupt_at = "none" /\ ovpn_file = FALSE

MainInit ==
  /\ env \in [KeySet -> EnvValues]
  /\ openvpn_in_path \in BOOLEAN
  /\ ovpn_file \in BOOLEAN
  /\ cfg = EmptyCfg /\ mpc = "deps"
  /\ exit_code = Running /\ fatal_msg = NoMsg /\ installed = FALSE
  /\ driver = "none" /\ subprocesses = <<>> /\ proc = "none"
  /\ auth_file = FALSE /\ passed = {}
  /\ errors = {} /\ interrupt_at = "none"

\* mutant of Fatal: the message is printed but the run is not ended
FatalWarnOnly(kind, names, err) ==
  /\ mpc' = mpc /\ exit_code' = exit_code
  /\ fatal_msg' = [kind |-> kind, names |-> names]
  /\ errors' = errors \cup {err}
  /\ driver' = driver

\* fatal(msg): lines 32-34; sys.exit(1) unwinds through download_installer's
\* finally, which quits the driver
Fatal(kind, names, err) ==
  /\ mpc' = "exited" /\ exit_code' = 1
  /\ fatal_msg' = [kind |-> kind, names |-> names]
  /\ errors' = errors \cup {err}
  /\ driver' = IF driver \in {"chrome", "firefox"} THEN "quit" ELSE driver

\* lines 44-65
MDeps ==
  /\ mpc = "deps"
  /\ \E missing \in BOOLEAN :
       IF missing
       THEN Fatal("missing_dependencies", <<>>, "deps") /\ UNCHANGED passed
       ELSE /\ mpc' = "load" /\ passed' = passed \cup {"deps"}
            /\ UNCHANGED <<exit_code, fatal_msg, errors, driver>>
  /\ UNCHANGED <<env, cfg, installed, subprocesses, proc, auth_file,
                 openvpn_in_path, interrupt_at>>
  /\ UNCHANGED ovpn_file
  /\ UNCHANGED notM

\* lines 73-87; int(DOWNLOAD_TIMEOUT) raises ValueError on a malformed value,
\* which nothing catches: traceback, exit status 1
MLoad ==
  /\ mpc = "load"
  /\ \E timeout_ok \in BOOLEAN :
       IF timeout_ok
       THEN /\ cfg' = load_configuration(env) /\ mpc' = "sanity"
            /\ UNCHANGED <<exit_code, fatal_msg, errors, driver>>
       ELSE Fatal("traceback", <<>>, "bad_timeout") /\ UNCHANGED cfg
  /\ UNCHANGED <<env, installed, subprocesses, proc, auth_file,
                 openvpn_in_path, passed, interrupt_at>>
  /\ UNCHANGED ovpn_file
  /\ UNCHANGED notM

\* lines 89-100
MSanity ==
  /\ mpc = "sanity"
  /\ IF sanity_missing(cfg) # <<>>
     THEN Fatal("missing_env", sanity_missing(cfg), "config") /\ UNCHANGED passed
     ELSE /\ mpc' = "check_present" /\ passed' = passed \cup {"config"}
          /\ UNCHANGED <<exit_code, fatal_msg, errors, driver>>
  /\ UNCHANGED <<env, cfg, installed, subprocesses, proc, auth_file,
                 openvpn_in_path, interrupt_at>>
  /\ UNCHANGED ovpn_file
  /\ UNCHANGED notM

\* lines 467-475
MCheckPresent ==
  /\ mpc = "check_present"
  /\ installed' = openvpn_in_path
  /\ mpc' = IF openvpn_in_path THEN "connect" ELSE "webdriver"
  /\ UNCHANGED <<env, cfg, exit_code, fatal_msg, driver, subprocesses, proc,
                 auth_file, openvpn_in_path, passed, errors, interrupt_at>>
  /\ UNCHANGED ovpn_file
  /\ UNCHANGED notM

\* lines 104-112
choose_browser_preference(cfg_browser) ==
  IF cfg_browser \in {"chrome", "firefox"} THEN cfg_browser ELSE "chrome"

\* lines 324-326, 126-143: the Chrome attempt of prepare_webdriver
MWebdriverChrome ==
  /\ mpc = "webdriver"
  /\ \E cfg_browser \in {"", "chrome", "firefox", "edge"}, ok \in BOOLEAN :
       IF choose_browser_preference(cfg_browser) = "chrome"
       THEN IF ok
            THEN /\ driver' = "chrome" /\ mpc' = "find_link"
                 /\ subprocesses' = Append(subprocesses, "chromedriver")
                 /\ passed' = passed \cup {"driver"}
                 /\ UNCHANGED errors
            ELSE /\ errors' = errors \cup {"chrome_init"}
                 /\ mpc' = "webdriver_firefox"
                 /\ UNCHANGED <<driver, subprocesses, passed>>
       ELSE /\ mpc' = "webdriver_firefox"
            /\ UNCHANGED <<driver, subprocesses, passed, errors>>
  /\ UNCHANGED <<env, cfg, exit_code, fatal_msg, installed, proc, auth_file,
                 openvpn_in_path, interrupt_at>>
  /\ UNCHANGED ovpn_file
  /\ UNCHANGED notM

\* lines 145-158
MWebdriverFirefox ==
  /\ mpc = "webdriver_firefox"
  /\ \E ok \in BOOLEAN :
       IF ok
       THEN /\ driver' = "firefox" /\ mpc' = "find_link"
            /\ subprocesses' = Append(subprocesses, "geckodriver")
            /\ passed' = passed \cup {"driver"}
            /\ UNCHANGED <<exit_code, fatal_msg, errors>>
       ELSE /\ Fatal("no_webdriver", <<>>, "firefox_init")
            /\ UNCHANGED <<subprocesses, passed>>
  /\ UNCHANGED <<env, cfg, installed, proc, auth_file, openvpn_in_path,
                 interrupt_at>>
  /\ UNCHANGED ovpn_file
  /\ UNCHANGED notM

\* lines 328-331 and find_and_click_download's ways of ending: a link was
\* activated (at the first click, or after the failed click was retried by a
\* second click or a navigation), no link, or an exception (caught by main,
\* line 479)
MFindLink ==
  /\ mpc = "find_link"
  /\ \E out \in {"click", "click_retry", "none", "raised"} :
       CASE out = "click" ->
              /\ mpc' = "wait_download" /\ passed' = passed \cup {"link"}
              /\ UNCHANGED <<exit_code, fatal_msg, errors, driver>>
         [] out = "click_retry" ->
              /\ mpc' = "wait_download" /\ passed' = passed \cup {"link"}
              /\ errors' = errors \cup {"click"}
              /\ UNCHANGED <<exit_code, fatal_msg, driver>>
         [] out = "none" ->
              Fatal("no_link", <<>>, "no_link") /\ UNCHANGED passed
         [] out = "raised" ->
              Fatal("download_step_failed", <<>>, "link_raised") /\ UNCHANGED passed
  /\ UNCHANGED <<env, cfg, installed, subprocesses, proc, auth_file,
                 openvpn_in_path, interrupt_at>>
  /\ UNCHANGED ovpn_file
  /\ UNCHANGED notM

\* lines 332-338 and wait_for_download_completion's ways of ending
MWaitDownload ==
  /\ mpc = "wait_download"
  /\ \E out \in {"file", "none", "raised"} :
       CASE out = "file" ->
              /\ mpc' = "handoff" /\ passed' = passed \cup {"download"}
              /\ driver' = "quit"
              /\ UNCHANGED <<exit_code, fatal_msg, errors>>
         [] out = "none" ->
              Fatal("download_timeout", <<>>, "timeout") /\ UNCHANGED passed
         [] out = "raised" ->
              Fatal("download_step_failed", <<>>, "watch_raised") /\ UNCHANGED passed
  /\ UNCHANGED <<env, cfg, installed, subprocesses, proc, auth_file,
                 openvpn_in_path, interrupt_at>>
  /\ UNCHANGED ovpn_file
  /\ UNCHANGED notM

\* the operator runs the installer during the handoff (or at the later prompt)
OperatorInstalls ==
  /\ mpc \in {"handoff", "continue_prompt"}
  /\ ~openvpn_in_path
  /\ openvpn_in_path' = TRUE
  /\ UNCHANGED <<env, cfg, mpc, exit_code, fatal_msg, installed, driver,
                 subprocesses, proc, auth_file, passed, errors, interrupt_at>>
  /\ UNCHANGED ovpn_file
  /\ UNCHANGED notM

\* lines 347-378: the prompt loops until "yes"; EOF on stdin is an uncaught
\* EOFError
MHandoff ==
  /\ mpc = "handoff"
  /\ \E choice \in {"yes", "no", "maybe", "eof"} :
       CASE choice = "yes" ->
              /\ mpc' = "recheck" /\ passed' = passed \cup {"confirmed"}
              /\ UNCHANGED <<exit_code, fatal_msg, errors, driver>>
         [] choice = "eof" ->
              Fatal("traceback", <<>>, "eof") /\ UNCHANGED passed
         [] OTHER ->
              UNCHANGED <<mpc, passed, exit_code, fatal_msg, errors, driver>>
  /\ UNCHANGED <<env, cfg, installed, subprocesses, proc, auth_file,
                 openvpn_in_path, interrupt_at>>
  /\ UNCHANGED ovpn_file
  /\ UNCHANGED notM

\* lines 485-489
MRecheck ==
  /\ mpc = "recheck"
  /\ IF openvpn_in_path
     THEN /\ mpc' = "connect" /\ passed' = passed \cup {"recheck"}
          /\ UNCHANGED errors
     ELSE /\ mpc' = "continue_prompt" /\ errors' = errors \cup {"recheck"}
          /\ UNCHANGED passed
  /\ UNCHANGED <<env, cfg, exit_code, fatal_msg, installed, driver,
                 subprocesses, proc, auth_file, openvpn_in_path, interrupt_at>>
  /\ UNCHANGED ovpn_file
  /\ UNCHANGED notM

\* lines 490-493
MContinuePrompt ==
  /\ mpc = "continue_prompt"
  /\ \E choice \in {"yes", "no", "eof"} :
       CASE choice = "yes" ->
              /\ mpc' = "connect" /\ passed' = passed \cup {"override"}
              /\ UNCHANGED <<exit_code, fatal_msg, errors, driver>>
         [] choice = "no" ->
              Fatal("openvpn_unavailable", <<>>, "declined") /\ UNCHANGED passed
         [] choice = "eof" ->
              Fatal("traceback", <<>>, "eof") /\ UNCHANGED passed
  /\ UNCHANGED <<env, cfg, installed, subprocesses, proc, auth_file,
                 openvpn_in_path, interrupt_at>>
  /\ UNCHANGED ovpn_file
  /\ UNCHANGED notM

\* mutant of MConnectCheck: the lookup's result is not tested
MConnectCheckSkip ==
  /\ mpc = "connect"
  /\ mpc' = "connect_cfg" /\ passed' = passed \cup {"located"}
  /\ UNCHANGED <<env, cfg, exit_code, fatal_msg, errors, driver, installed,
                 subprocesses, proc, auth_file, openvpn_in_path, interrupt_at,
                 ovpn_file>>
  /\ UNCHANGED notM

\* lines 412-414
MConnectCheck ==
  /\ mpc = "connect"
  /\ IF openvpn_in_path
     THEN /\ mpc' = "connect_cfg" /\ passed' = passed \cup {"located"}
          /\ UNCHANGED <<exit_code, fatal_msg, errors, driver>>
     ELSE Fatal("openvpn_not_found", <<>>, "not_located") /\ UNCHANGED passed
  /\ UNCHANGED <<env, cfg, installed, subprocesses, proc, auth_file,
                 openvpn_in_path, interrupt_at>>
  /\ UNCHANGED ovpn_file
  /\ UNCHANGED notM

\* lines 416-418
MConnectCfg ==
  /\ mpc = "connect_cfg"
  /\ IF ovpn_file
     THEN /\ mpc' = "auth" /\ passed' = passed \cup {"cfgfile"}
          /\ UNCHANGED <<exit_code, fatal_msg, errors, driver>>
     ELSE Fatal("config_not_found", <<>>, "no_cfgfile") /\ UNCHANGED passed
  /\ UNCHANGED <<env, cfg, installed, subprocesses, proc, auth_file,
                 openvpn_in_path, interrupt_at>>
  /\ UNCHANGED ovpn_file
  /\ UNCHANGED notM

\* lines 420, 393-405 (an OSError is caught by main, line 498)
MCreateAuth ==
  /\ mpc = "auth"
  /\ \E ok \in BOOLEAN :
       IF ok
       THEN /\ auth_file' = TRUE /\ mpc' = "popen"
            /\ passed' = passed \cup {"auth"}
            /\ UNCHANGED <<exit_code, fatal_msg, errors, driver>>
       ELSE /\ Fatal("connection_step_failed", <<>>, "auth_raised")
            /\ UNCHANGED <<auth_file, passed>>
  /\ UNCHANGED <<env, cfg, installed, subprocesses, proc, openvpn_in_path,
                 interrupt_at>>
  /\ UNCHANGED ovpn_file
  /\ UNCHANGED notM

\* lines 422-436
MPopen ==
  /\ mpc = "popen"
  /\ \E ok \in BOOLEAN :
       IF ok
       THEN /\ proc' = "running" /\ mpc' = "stream"
            /\ subprocesses' = Append(subprocesses, "openvpn")
            /\ passed' = passed \cup {"started"}
            /\ UNCHANGED <<exit_code, fatal_msg, errors, driver>>
       ELSE /\ Fatal("popen_failed", <<>>, "popen")
            /\ UNCHANGED <<proc, subprocesses, passed>>
  /\ UNCHANGED <<env, cfg, installed, auth_file, openvpn_in_path, interrupt_at>>
  /\ UNCHANGED ovpn_file
  /\ UNCHANGED notM

\* lines 439-442: the child's output ends (the child has exited, or has only
\* closed its stdout)
MStreamEnd ==
  /\ mpc = "stream"
  /\ proc' \in {"exited", "running"}
  /\ mpc' = "finally"
  /\ UNCHANGED <<env, cfg, exit_code, fatal_msg, installed, driver,
                 subprocesses, auth_file, openvpn_in_path, passed, errors,
                 interrupt_at>>
  /\ UNCHANGED ovpn_file
  /\ UNCHANGED notM

\* lines 447-448
MStreamReadError ==
  /\ mpc = "stream"
  /\ errors' = errors \cup {"read_error"}
  /\ mpc' = "finally"
  /\ UNCHANGED <<env, cfg, exit_code, fatal_msg, installed, driver,
                 subprocesses, proc, auth_file, openvpn_in_path, passed,
                 interrupt_at>>
  /\ UNCHANGED ovpn_file
  /\ UNCHANGED notM

\* lines 443-446: KeyboardInterrupt while streaming; proc.wait(timeout=5)
\* returns, or raises TimeoutExpired (caught by main, line 498)
MStreamInterrupt ==
  /\ mpc = "stream"
  /\ interrupt_at' = "stream"
  /\ \E waited \in BOOLEAN :
       IF waited
       THEN /\ proc' = "terminated" /\ mpc' = "finally"
            /\ UNCHANGED <<exit_code, fatal_msg, errors, driver>>
       ELSE /\ Fatal("connection_step_failed", <<>>, "wait_timeout")
            /\ proc' = "terminated"
  /\ UNCHANGED <<env, cfg, installed, subprocesses, auth_file,
                 openvpn_in_path, passed>>
  /\ UNCHANGED ovpn_file
  /\ UNCHANGED notM

\* lines 449-455, then main returns: the interpreter exits with status 0
MFinally ==
  /\ mpc = "finally"
  /\ proc' = IF proc = "running" THEN "terminated" ELSE proc
  /\ mpc' = "exited" /\ exit_code' = 0
  /\ UNCHANGED <<env, cfg, fatal_msg, installed, driver, subprocesses,
                 auth_file, openvpn_in_path, passed, errors, interrupt_at>>
  /\ UNCHANGED ovpn_file
  /\ UNCHANGED notM

\* lines 501-506: a KeyboardInterrupt anywhere outside the streaming loop
\* reaches the entry point
MInterrupt ==
  /\ mpc \notin {"idle", "stream", "exited"}
  /\ interrupt_at' = mpc
  /\ mpc' = "exited" /\ exit_code' = 2
  /\ fatal_msg' = [kind |-> "aborted", names |-> <<>>]
  /\ driver' = IF driver \in {"chrome", "firefox"} THEN "quit" ELSE driver
  /\ UNCHANGED <<env, cfg, installed, subprocesses, proc, auth_file,
                 openvpn_in_path, passed, errors>>
  /\ UNCHANGED ovpn_file
  /\ UNCHANGED notM

\* ---- C5 ----------------------------------------------------------------
\* C5: once the OpenVPN process has been launched and has ended, the
\* credentials file no longer exists when the run finishes; and it exists as
\* long as the process runs.
C5_AuthFileDeleted ==
  /\ (mpc = "exited" /\ proc \in {"exited", "terminated"}) => ~auth_file
  /\ (proc = "running") => auth_file

\* ---- C6 ----------------------------------------------------------------
\* C6: a run ends with status 2 when the operator interrupted it (at any
\* stage, the streaming of the child's output included), else with 1 when a
\* fatal error ended it, else with 0.
C6_ExitCodes ==
  (mpc = "exited") =>
     /\ exit_code \in {0, 1, 2}
     /\ (interrupt_at # "none") => exit_code = 2
     /\ (interrupt_at = "none" /\ fatal_msg # NoMsg) => exit_code = 1
     /\ (interrupt_at = "none" /\ fatal_msg = NoMsg) => exit_code = 0

\* ---- C8 ----------------------------------------------------------------
\* the required keys that the configuration source leaves missing or blank
MissingKeys(e) == { k \in KeySet : e[k] \in {Unset, " "} }

SanityReached ==
  /\ mpc \notin {"deps", "load", "sanity"}
  /\ errors \cap {"deps", "bad_timeout"} = {}
  /\ interrupt_at \notin {"deps", "load", "sanity"}

\* C8: whenever sanity_check_config runs on a configuration in which some
\* required keys are missing or blank, it ends the run with one fatal error
\* (status 1) whose message names every missing key, each once, and no other.
C8_AllMissingNamed ==
  /\ (fatal_msg.kind = "missing_env") =>
        /\ { fatal_msg.names[i] : i \in DOMAIN fatal_msg.names } = MissingKeys(env)
        /\ Len(fatal_msg.names) = Cardinality(MissingKeys(env))
        /\ MissingKeys(env) # {}
  /\ (SanityReached /\ MissingKeys(env) # {}) =>
        /\ fatal_msg.kind = "missing_env"
        /\ mpc = "exited" /\ exit_code = 1

\* one key unset and another blank: both are named
C8_Witness ==
  /\ mpc = "exited" /\ exit_code = 1
  /\ env["DOWNLOAD_PAGE_URL"] = Unset /\ env["VPN_USERNAME"] = " "
  /\ env["VPN_CONFIG_FILE"] = "v" /\ env["VPN_PASSWORD"] = "v"
  /\ fatal_msg = [kind |-> "missing_env",
                  names |-> <<"DOWNLOAD_PAGE_URL", "VPN_USERNAME">>]

\* ---- C9 ----------------------------------------------------------------
ConnectionPcs == {"connect", "connect_cfg", "auth", "popen", "stream", "finally"}

DownloadPcs == {"webdriver", "webdriver_firefox", "find_link", "wait_download"}

\* what each position of main needs to have succeeded before it
Needs(pc) ==
  (IF pc \notin {"idle", "deps", "exited"} THEN {"deps"} ELSE {})
  \cup (IF pc \notin {"idle", "deps", "load", "sanity", "exited"}
        THEN {"config"} ELSE {})
  \cup (IF pc \in {"find_link", "wait_download"} THEN {"driver"} ELSE {})
  \cup (IF pc = "wait_download" THEN {"link"} ELSE {})
  \cup (IF pc \in {"handoff", "recheck", "continue_prompt"}
        THEN {"driver", "link", "download"} ELSE {})
  \cup (IF pc \in {"recheck", "continue_prompt"} THEN {"confirmed"} ELSE {})
  \cup (IF pc \in {"connect_cfg", "auth", "popen", "stream", "finally"}
        THEN {"located"} ELSE {})
  \cup (IF pc \in {"auth", "popen", "stream", "finally"} THEN {"cfgfile"} ELSE {})
  \cup (IF pc \in {"popen", "stream", "finally"} THEN {"auth"} ELSE {})
  \cup (IF pc \in {"stream", "finally"} THEN {"started"} ELSE {})

\* the download pipeline ran and every step of it succeeded
PipelinePassed ==
  {"driver", "link", "download", "confirmed", "recheck"} \subseteq passed

Tolerated == {"chrome_init", "click", "recheck", "read_error"}

C15_LaunchGated ==
  [][(subprocesses' # subprocesses
        /\ subprocesses'[Len(subprocesses')] = "openvpn") =>
       /\ openvpn_in_path /\ ovpn_file
       /\ {"located", "cfgfile"} \subseteq passed]_vars

\* launched after "continue anyway"
C15_Witness ==
  /\ "override" \in passed /\ "recheck" \in errors
  /\ proc = "running"
  /\ subprocesses[Len(subprocesses)] = "openvpn"

MainNext ==
  \/ MDeps \/ MLoad \/ MSanity \/ MCheckPresent
  \/ MWebdriverChrome \/ MWebdriverFirefox \/ MFindLink \/ MWaitDownload
  \/ OperatorInstalls \/ MHandoff \/ MRecheck \/ MContinuePrompt
  \/ MConnectCheck \/ MConnectCfg \/ MCreateAuth \/ MPopen
  \/ MStreamEnd \/ MStreamReadError \/ MStreamInterrupt \/ MFinally
  \/ MInterrupt

(***************************************************************************)
(* connect_vpn.py                                                          *)
(***************************************************************************)
CKeys == {"VPN_CONFIG_FILE", "VPN_USERNAME", "VPN_PASSWORD", "STARTUP_URL"}

\* `not os.getenv(key)`: the variable is unset or empty (nothing is stripped)
Falsy(x) == x \in {Unset, ""}

ConnIdle ==
  /\ cenv = [k \in CKeys |-> Unset] /\ csystem = "Linux" /\ cpc = "idle"
  /\ creds_file = FALSE /\ cproc = "none" /\ cexit = Running
  /\ claunched = <<>> /\ cmsg = "none"

ConnInit ==
  /\ cenv \in [CKeys -> {Unset, "", "v"}]
  /\ csystem \in {"Windows", "Linux", "Darwin"}
  /\ cpc = "start"
  /\ creds_file = FALSE /\ cproc = "none" /\ cexit = Running
  /\ claunched = <<>> /\ cmsg = "none"

\* lines 16-23: on a missing variable the function prints and returns, and
\* the script ends normally
CCheck ==
  /\ cpc = "start"
  /\ IF \E k \in CKeys : Falsy(cenv[k])
     THEN cmsg' = "missing_variables" /\ cpc' = "exited" /\ cexit' = 0
     ELSE cpc' = "write" /\ UNCHANGED <<cmsg, cexit>>
  /\ UNCHANGED <<cenv, csystem, creds_file, cproc, claunched>>
  /\ UNCHANGED notC

\* lines 26-28 (an OSError is not caught: traceback, status 1)
CWrite ==
  /\ cpc = "write"
  /\ \E ok \in BOOLEAN :
       IF ok
       THEN creds_file' = TRUE /\ cpc' = "platform" /\ UNCHANGED <<cmsg, cexit>>
       ELSE /\ cmsg' = "traceback" /\ cpc' = "exited" /\ cexit' = 1
            /\ UNCHANGED creds_file
  /\ UNCHANGED <<cenv, csystem, cproc, claunched>>
  /\ UNCHANGED notC

\* lines 31-44
CPlatform ==
  /\ cpc = "platform"
  /\ IF csystem \in {"Windows", "Linux"}
     THEN cpc' = "popen" /\ UNCHANGED <<cmsg, cexit, creds_file>>
     ELSE /\ cmsg' = "unsupported_os" /\ creds_file' = FALSE
          /\ cpc' = "exited" /\ cexit' = 0
  /\ UNCHANGED <<cenv, csystem, cproc, claunched>>
  /\ UNCHANGED notC

\* lines 46-48, 58-61
CPopen ==
  /\ cpc = "popen"
  /\ \E out \in {"ok", "not_found", "error"} :
       IF out = "ok"
       THEN /\ cproc' = "running" /\ cpc' = "sleep"
            /\ claunched' = Append(claunched,
                  IF csystem = "Windows" THEN "openvpn.exe" ELSE "sudo openvpn")
            /\ UNCHANGED cmsg
       ELSE /\ cmsg' = out /\ cpc' = "finally"
            /\ UNCHANGED <<cproc, claunched>>
  /\ UNCHANGED <<cenv, csystem, creds_file, cexit>>
  /\ UNCHANGED notC

\* the child ends during time.sleep(10)
CChildExits ==
  /\ cpc = "sleep" /\ cproc = "running"
  /\ cproc' = "exited"
  /\ UNCHANGED <<cenv, csystem, cpc, creds_file, cexit, claunched, cmsg>>
  /\ UNCHANGED notC

\* lines 50-56, 66-74
CPoll ==
  /\ cpc = "sleep"
  /\ IF cproc = "running"
     THEN /\ cmsg' = "initiated"
          /\ claunched' = Append(claunched, "browser")
     ELSE cmsg' = "failed" /\ UNCHANGED claunched
  /\ cpc' = "finally"
  /\ UNCHANGED <<cenv, csystem, creds_file, cproc, cexit>>
  /\ UNCHANGED notC

\* lines 62-64, then the script ends (the child, if running, stays)
CFinally ==
  /\ cpc = "finally"
  /\ creds_file' = FALSE
  /\ cpc' = "exited" /\ cexit' = 0
  /\ UNCHANGED <<cenv, csystem, cproc, claunched, cmsg>>
  /\ UNCHANGED notC

\* ---- C7 ----------------------------------------------------------------
\* C7: a run whose configuration lacks a required key ends with a fatal
\* error, exit status 1, and has launched no subprocess.
C7_MissingKeyFatal ==
  (cpc = "exited" /\ \E k \in CKeys : Falsy(cenv[k])) =>
     (cexit = 1 /\ claunched = <<>>)

ConnNext ==
  \/ CCheck \/ CWrite \/ CPlatform \/ CPopen \/ CChildExits \/ CPoll
  \/ CFinally

(***************************************************************************)
(* vpn_automator_wireguard.py                                              *)
(***************************************************************************)
Cmd(argv, rc) == [argv |-> argv, rc |-> rc]

AptUpdate == <<"sudo", "apt-get", "update">>
AptInstall == <<"sudo", "apt-get", "install", "-y", "wireguard", "wireguard-tools">>
DnfInstall == <<"sudo", "dnf", "install", "-y", "wireguard-tools">>
WingetInstall == <<"winget", "install", "--id", "WireGuard.WireGuard", "-e", "--silent">>
ChocoInstall == <<"choco", "install", "wireguard", "-y">>

\* lines 65-91: what install_wireguard runs; "fatal" where it gives up
install_plan(system, pms) ==
  CASE system = "linux" ->
         IF "apt-get" \in pms THEN [fatal |-> FALSE, cmds |-> <<AptUpdate, AptInstall>>]
         ELSE IF "dnf" \in pms THEN [fatal |-> FALSE, cmds |-> <<DnfInstall>>]
         ELSE [fatal |-> TRUE, cmds |-> <<>>]
    [] system = "windows" ->
         IF "winget" \in pms THEN [fatal |-> FALSE, cmds |-> <<WingetInstall>>]
         ELSE IF "choco" \in pms THEN [fatal |-> FALSE, cmds |-> <<ChocoInstall>>]
         ELSE [fatal |-> TRUE, cmds |-> <<>>]
    [] system = "darwin" -> [fatal |-> FALSE, cmds |-> <<>>]
    [] OTHER -> [fatal |-> TRUE, cmds |-> <<>>]

\* mutant of wg_quick_cmd: never elevated
wg_quick_cmd_plain(root, path) == <<"wg-quick", "up", path>>

\* lines 102-107
wg_quick_cmd(root, path) ==
  IF root THEN <<"wg-quick", "up", path>>
  ELSE <<"sudo">> \o <<"wg-quick", "up", path>>

WgIdle ==
  /\ genv = Unset /\ gsystem = "linux" /\ groot = FALSE /\ gpms = {}
  /\ wg_present = FALSE /\ gpc = "idle" /\ gqueue = <<>> /\ gcmds = <<>>
  /\ gexit = Running /\ gmsg = "none" /\ gneeded = FALSE

WgInit ==
  /\ genv \in EnvValues
  /\ gsystem \in {"linux", "windows", "darwin", "freebsd"}
  /\ groot \in BOOLEAN
  /\ gpms \in SUBSET {"apt-get", "dnf", "winget", "choco"}
  /\ wg_present \in BOOLEAN
  /\ gpc = "start" /\ gqueue = <<>> /\ gcmds = <<>>
  /\ gexit = Running /\ gmsg = "none" /\ gneeded = FALSE

\* fatal(msg): lines 23-25
GFatal(msg) == gpc' = "exited" /\ gexit' = 1 /\ gmsg' = msg

\* lines 42-52, 120-121
GSanity ==
  /\ gpc = "start"
  /\ IF Strip(Getenv([k \in {"WG_CONFIG_FILE"} |-> genv], "WG_CONFIG_FILE", "")) = ""
     THEN GFatal("missing_env")
     ELSE gpc' = "check" /\ UNCHANGED <<gexit, gmsg>>
  /\ UNCHANGED <<genv, gsystem, groot, gpms, wg_present, gqueue, gcmds, gneeded>>
  /\ UNCHANGED notG

\* lines 123-125, 82-91, 65-80: the first check, and what to install with
GCheck ==
  /\ gpc = "check"
  /\ IF wg_present
     THEN gpc' = "connect" /\ UNCHANGED <<gqueue, gexit, gmsg, gneeded>>
     ELSE /\ gneeded' = TRUE
          /\ IF install_plan(gsystem, gpms).fatal
             THEN GFatal("cannot_install") /\ UNCHANGED gqueue
             ELSE /\ gqueue' = install_plan(gsystem, gpms).cmds
                  /\ gpc' = "installing" /\ UNCHANGED <<gexit, gmsg>>
  /\ UNCHANGED <<genv, gsystem, groot, gpms, wg_present, gcmds>>
  /\ UNCHANGED notG

\* run_command, lines 33-38: the command ends with status 0, ends with a
\* nonzero status (fatal), or, without a shell, cannot be started (an
\* uncaught exception: traceback, status 1). A successful install may put
\* the binary on the path.
GRun ==
  /\ gpc \in {"installing", "connecting"} /\ gqueue # <<>>
  /\ \E rc \in (IF gsystem = "windows" THEN {0, 1} ELSE {0, 1, 127}) :
       /\ gcmds' = Append(gcmds, Cmd(Head(gqueue), rc))
       /\ IF rc = 0
          THEN gqueue' = Tail(gqueue) /\ UNCHANGED <<gpc, gexit, gmsg>>
          ELSE /\ GFatal(IF rc = 1 THEN "command_failed" ELSE "traceback")
               /\ UNCHANGED gqueue
       /\ IF rc = 0 /\ gpc = "installing" /\ Head(gqueue) # AptUpdate
          THEN wg_present' \in BOOLEAN
          ELSE UNCHANGED wg_present
  /\ UNCHANGED <<genv, gsystem, groot, gpms, gneeded>>
  /\ UNCHANGED notG

\* lines 126-127
GRecheck ==
  /\ gpc = "installing" /\ gqueue = <<>>
  /\ IF wg_present
     THEN gpc' = "connect" /\ UNCHANGED <<gexit, gmsg>>
     ELSE GFatal("install_failed")
  /\ UNCHANGED <<genv, gsystem, groot, gpms, wg_present, gqueue, gcmds, gneeded>>
  /\ UNCHANGED notG

\* lines 95-115, up to the command or the prompt
GConnect ==
  /\ gpc = "connect"
  /\ \E conf_exists \in BOOLEAN :
       IF ~conf_exists THEN GFatal("config_not_found") /\ UNCHANGED gqueue
       ELSE IF gsystem \in {"linux", "darwin"}
       THEN /\ gqueue' = <<wg_quick_cmd(groot, Strip(genv))>>
            /\ gpc' = "connecting" /\ UNCHANGED <<gexit, gmsg>>
       ELSE IF gsystem = "windows"
       THEN gpc' = "win_prompt" /\ UNCHANGED <<gqueue, gexit, gmsg>>
       ELSE GFatal("unsupported_os") /\ UNCHANGED gqueue
  /\ UNCHANGED <<genv, gsystem, groot, gpms, wg_present, gcmds, gneeded>>
  /\ UNCHANGED notG

\* line 113: input() returns, or raises EOFError (traceback, status 1)
GWinPrompt ==
  /\ gpc = "win_prompt"
  /\ \E eof \in BOOLEAN :
       IF eof THEN GFatal("traceback")
       ELSE gpc' = "exited" /\ gexit' = 0 /\ UNCHANGED gmsg
  /\ UNCHANGED <<genv, gsystem, groot, gpms, wg_present, gqueue, gcmds, gneeded>>
  /\ UNCHANGED notG

\* line 109, then main returns
GDone ==
  /\ gpc = "connecting" /\ gqueue = <<>>
  /\ gpc' = "exited" /\ gexit' = 0
  /\ UNCHANGED <<genv, gsystem, groot, gpms, wg_present, gqueue, gcmds, gmsg,
                 gneeded>>
  /\ UNCHANGED notG

\* lines 131-136
GInterrupt ==
  /\ gpc \notin {"idle", "exited"}
  /\ gpc' = "exited" /\ gexit' = 2 /\ gmsg' = "aborted"
  /\ UNCHANGED <<genv, gsystem, groot, gpms, wg_present, gqueue, gcmds, gneeded>>
  /\ UNCHANGED notG

\* ---- C10 ---------------------------------------------------------------
ArgvLog == [i \in 1..Len(gcmds) |-> gcmds[i].argv]

IsPrefix(s, t) == Len(s) <= Len(t) /\ \A i \in 1..Len(s) : s[i] = t[i]

\* the commands of a run that installs and then connects
ExpectedCommands ==
  install_plan(gsystem, gpms).cmds \o
    << IF groot THEN <<"wg-quick", "up", "v">>
       ELSE <<"sudo", "wg-quick", "up", "v">> >>

AllSucceeded == \A i \in 1..Len(gcmds) : gcmds[i].rc = 0

\* C10: in a run that found no WireGuard binary, the commands run are, in
\* order, the install commands of the detected package manager and then
\* `wg-quick up <path>` (with sudo in front exactly when the user is not
\* root); wg-quick is run only when the recheck found the binary; a command
\* that ends nonzero is the last one run and the run ends with status 1; a
\* Linux/macOS run ends with status 0 only after all of them ran, and a run
\* in which all of them ran and succeeded ends with status 0.
C10_InstallThenConnect ==
  gneeded =>
    /\ IsPrefix(ArgvLog, ExpectedCommands)
    /\ (Len(gcmds) = Len(ExpectedCommands)) => wg_present
    /\ \A i \in 1..Len(gcmds) :
         gcmds[i].rc # 0 => (i = Len(gcmds) /\ gpc = "exited" /\ gexit = 1)
    /\ (gpc = "exited" /\ gexit = 0 /\ gsystem \in {"linux", "darwin"}) =>
         (ArgvLog = ExpectedCommands /\ AllSucceeded)
    /\ (gpc = "exited" /\ ArgvLog = ExpectedCommands /\ AllSucceeded
          /\ gmsg # "aborted") => gexit = 0

C10_Witness ==
  /\ gneeded /\ gpc = "exited" /\ gexit = 0 /\ ~groot
  /\ ArgvLog = <<AptUpdate, AptInstall, <<"sudo", "wg-quick", "up", "v">> >>

WgNext ==
  \/ GSanity \/ GCheck \/ GRun \/ GRecheck \/ GConnect \/ GWinPrompt
  \/ GDone \/ GInterrupt

InitLink == LinkInit /\ WatchIdle /\ MainIdle /\ ConnIdle /\ WgIdle

SpecLink == InitLink /\ [][LinkNext]_vars

InitWatch == WatchInit /\ LinkIdle /\ MainIdle /\ ConnIdle /\ WgIdle

SpecWatch == InitWatch /\ [][WatchNext]_vars

InitMain == MainInit /\ LinkIdle /\ WatchIdle /\ ConnIdle /\ WgIdle

SpecMain == InitMain /\ [][MainNext]_vars

InitConn == ConnInit /\ LinkIdle /\ WatchIdle /\ MainIdle /\ WgIdle

SpecConnect == InitConn /\ [][ConnNext]_vars

InitWg == WgInit /\ LinkIdle /\ WatchIdle /\ MainIdle /\ ConnIdle

SpecWG == InitWg /\ [][WgNext]_vars

====
